---------------------------- MODULE Spec2Model ----------------------------
(***************************************************************************)
(* Model of the chat backend: backend/main.py (the websocket transport,    *)
(* websocket_endpoint) and backend/agent.py (the tools of build_tools).    *)
(*                                                                         *)
(* One connection is modelled.  The client sends frames and may            *)
(* disconnect at any time; the handler coroutine is a program counter pc   *)
(* over the await points of websocket_endpoint.  The agent returned by     *)
(* create_agent is a library object: its event stream is modelled as a     *)
(* nondeterministic source of the event kinds the handler distinguishes,   *)
(* and a tool invocation runs between on_tool_start and on_tool_end.       *)
(***************************************************************************)
EXTENDS Naturals, Sequences, FiniteSets

(***************************************************************************)
(* Bounds of the model.                                                    *)
(***************************************************************************)
\* frames the client sends over the life of the connection
MaxFrames == 2
\* agent events (chunks, tool calls, other kinds) over the life of the
\* connection; once they are used up a stream only finishes or raises
MaxEvents == 2
\* tool calls the model asks for over the life of the connection
MaxTools == 1

VARIABLES
    conn,       \* "open" | "closed": "closed" once the client has severed the
                \* websocket
    inbox,      \* number of frames sent by the client and not yet returned by
                \* receive_text; a frame is opaque to the server until then, so
                \* its content is drawn when it is received
    raw,        \* main.py:40 the frame receive_text returned last
    nsent,      \* number of frames the client has sent
    pc,         \* the handler's position in websocket_endpoint
    history,    \* main.py:36 the per-connection message list
    out,        \* events delivered to the client, each tagged with its turn
    turn,       \* number of turns started (main.py:46 executed)
    aborted,    \* turns whose stream raised (main.py:102 entered)
    apc,        \* the agent stream: "idle" | "gen" | "tool" | "fin" | "limit"
    nev,        \* agent events produced so far
    gmsgs,      \* the message list of the running graph
    event,      \* main.py:49 the event the stream yielded last
    tname,      \* the tool being invoked
    tpc,        \* position inside the running tool body
    tmp_path,   \* agent.py:33 local of execute_python (0 is None)
    tfile,      \* the temp file the invocation created (0: none)
    result,     \* the value the tool body is about to return
    disk,       \* temp files present on disk
    procs,      \* child processes still running
    ninv,       \* number of execute_python invocations so far
    ntool       \* number of tool calls so far

\* the connection handler, its agent stream and its tools
mainVars == <<conn, inbox, nsent, raw, pc, history, out, turn, aborted, apc, nev, gmsgs,
              event, tname, tpc, tmp_path, tfile, result, disk, procs, ninv, ntool>>

connVars == <<conn, inbox, nsent, raw>>
toolVars == <<tname, tpc, tmp_path, tfile, result, disk, procs, ninv, ntool>>
agentVars == <<apc, nev, gmsgs, event>>

\* The tools and the payload fields as functions of their arguments
\* (specifications FileSpec, ListSpec and WireSpec).
VARIABLES
    fs,         \* the files on disk, by path
    linesep,    \* os.linesep of the platform the server runs on
    written,    \* per path, the content of the last write_file call, if it succeeded
    call,       \* the operation applied last, with its arguments
    ret         \* the value it produced

dataVars == <<fs, linesep, written, call, ret>>

\* Several connections served by one process (specification ConnSpec).
VARIABLES
    cpc,        \* per connection, the position of its handler
    chist,      \* main.py:36 the history lists of the handlers
    cgraph,     \* main.py:49-52 per connection, the message list of its graph run
    cout,       \* per connection, the events delivered to its client
    cturn       \* per connection, the number of turns started

connsVars == <<cpc, chist, cgraph, cout, cturn>>

auxVars == <<dataVars, connsVars>>

vars == <<mainVars, auxVars>>

(***************************************************************************)
(* Texts: strings over a whitespace character and a printing character;    *)
(* the empty string, a whitespace-only string, and text with leading,      *)
(* trailing and both-sided whitespace.                                     *)
(***************************************************************************)
Texts ==
    {<<>>, <<" ">>, <<" ", " ">>, <<"a">>, <<" ", "a">>, <<"a", " ">>,
     <<" ", "a", " ">>}

RECURSIVE lstrip(_)
\* str.lstrip(): drop leading whitespace
lstrip(s) ==
    IF s = <<>> THEN <<>>
    ELSE IF Head(s) = " " THEN lstrip(Tail(s)) ELSE s

RECURSIVE rstrip(_)
\* str.rstrip(): drop trailing whitespace
rstrip(s) ==
    IF s = <<>> THEN <<>>
    ELSE IF s[Len(s)] = " " THEN rstrip(SubSeq(s, 1, Len(s) - 1)) ELSE s

\* str.strip() as used at main.py:42 and agent.py:48
strip(s) == rstrip(lstrip(s))

(***************************************************************************)
(* Frames.  kind is what the raw text is:                                  *)
(*   "nonjson"  not valid JSON                (json.loads raises)          *)
(*   "nonobj"   valid JSON, not an object     (data.get raises)            *)
(*   "nofield"  an object without "message"   (default "" is used)         *)
(*   "nonstr"   "message" is not a string     (.strip raises)              *)
(*   "text"     {"message": text}                                          *)
(***************************************************************************)
Frame(k, t) == [kind |-> k, text |-> t]

NoFrame == Frame("none", <<>>)

Frames ==
    {Frame(k, <<>>) : k \in {"nonjson", "nonobj", "nofield", "nonstr"}}
    \cup {Frame("text", t) : t \in Texts}

\* main.py:41-42: TRUE when json.loads / data.get / .strip raise on the frame
ParseRaises(f) == f.kind \in {"nonjson", "nonobj", "nonstr"}

\* variant of user_text: the text is taken without .strip()
user_text_nostrip(f) == IF f.kind = "text" THEN f.text ELSE <<>>

\* main.py:42: user_text for a frame on which the line does not raise
user_text(f) == IF f.kind = "text" THEN strip(f.text) ELSE <<>>

\* messages of the conversation
Msg(r, t, c) == [role |-> r, text |-> t, call |-> c]

HumanMessage(t) == Msg("user", t, 0)

\* events on the wire (json.dumps of main.py:62, 70-75, 83-88, 100, 105, 107)
Event(ty, tl) == [type |-> ty, tool |-> tl, turn |-> turn]


(***************************************************************************)
(* Tool results.  kind names the return statement that produced the        *)
(* string, text is the variable part of it.                                *)
(***************************************************************************)
Result(k, t) == [kind |-> k, text |-> t]

NoResult == Result("none", <<>>)

ToolNames == {"web_search", "execute_python", "read_file", "write_file", "list_files"}

\* model chunks: chunk.content is a list (tool-call deltas) or a string
Chunks ==
    {[list |-> TRUE, text |-> <<>>], [list |-> FALSE, text |-> <<>>],
     [list |-> FALSE, text |-> <<"a">>]}

\* upstream events (main.py:53-55: event["event"], event.get("name"),
\* event["data"]["chunk"]); chunk is the content of the chunk of a
\* model-stream event
NoChunk == [list |-> TRUE, text |-> <<>>]

UpEvent(kind, name, chunk) == [event |-> kind, name |-> name, chunk |-> chunk]

NoEvent == UpEvent("none", "", NoChunk)

HandlerInit ==
    /\ conn = "open"
    /\ inbox = 0
    /\ nsent = 0
    /\ raw = NoFrame
    /\ pc = "recv"
    /\ history = <<>>
    /\ out = <<>>
    /\ turn = 0
    /\ aborted = {}
    /\ apc = "idle"
    /\ nev = 0
    /\ gmsgs = <<>>
    /\ event = NoEvent
    /\ tname = "none"
    /\ tpc = "idle"
    /\ tmp_path = 0
    /\ tfile = 0
    /\ result = NoResult
    /\ disk = {}
    /\ procs = {}
    /\ ninv = 0
    /\ ntool = 0

\* bounds of the specification ConnSpec: connections, and turns of each
MaxConns == 2
MaxTurns == 2

Conns == 1..MaxConns

\* the paths the file tools are called with
Paths == {"d/a.txt"}

\* a path with no file, and a file holding the characters d
NoFile == [exists |-> FALSE, data |-> <<>>]

File(d) == [exists |-> TRUE, data |-> d]

\* no successful write_file call to a path yet, and one with content c
NoWrite == [some |-> FALSE, content |-> <<>>]

Wrote(c) == [some |-> TRUE, content |-> c]

Call(op, path, arg) == [op |-> op, path |-> path, arg |-> arg]

NoCall == Call("none", "", <<>>)

Ret(kind, val) == [kind |-> kind, val |-> val]

NoRet == Ret("none", <<>>)

\* line separators: the line feed is one character, the pair "\r\n" is kept
\* as one element of a file's data
LF == "LF"

CR == "CR"

CRLF == "CRLF"

\* nothing has been called
DataInit ==
    /\ fs = [p \in Paths |-> NoFile]
    /\ linesep = LF
    /\ written = [p \in Paths |-> NoWrite]
    /\ call = NoCall
    /\ ret = NoRet

\* main.py:20-23: the process is up, no client has connected
ConnsInit ==
    /\ cpc = [c \in Conns |-> "none"]
    /\ chist = [c \in Conns |-> <<>>]
    /\ cgraph = [c \in Conns |-> <<>>]
    /\ cout = [c \in Conns |-> <<>>]
    /\ cturn = [c \in Conns |-> 0]

Init == HandlerInit /\ DataInit /\ ConnsInit

(***************************************************************************)
(* The client.                                                             *)
(***************************************************************************)
\* the handler has returned or died; the server then closes the socket
Ended == pc \in {"exited", "crashed"}

\* the client sends one frame; the server queues it until receive_text
ClientSend ==
    /\ conn = "open"
    /\ ~Ended
    /\ nsent < MaxFrames
    /\ inbox' = inbox + 1
    /\ nsent' = nsent + 1
    /\ UNCHANGED <<conn, raw, pc, history, out, turn, aborted, agentVars, toolVars>>
    /\ UNCHANGED auxVars

\* the client severs the connection
ClientDisconnect ==
    /\ conn = "open"
    /\ ~Ended
    /\ conn' = "closed"
    /\ UNCHANGED <<inbox, nsent, raw, pc, history, out, turn, aborted, agentVars,
                   toolVars>>
    /\ UNCHANGED auxVars

(***************************************************************************)
(* websocket_endpoint, main.py:32-110.                                     *)
(***************************************************************************)
\* variant of Receiving: frames are also taken while a turn is streaming
Receiving_anytime == pc \in {"recv", "stream"}

\* main.py:39-40: the only place a frame is taken is the top of the loop
Receiving == pc = "recv"

\* main.py:102: control enters the except clause of the turn
Except ==
    /\ pc' = "send_error"
    /\ aborted' = aborted \cup {turn}

\* an exception leaves websocket_endpoint: through `except WebSocketDisconnect:
\* pass` (main.py:109-110) or, for any other exception type, uncaught
HandlerEnds == pc' \in {"exited", "crashed"}

\* main.py:40: receive_text returns the next queued frame
Receive(f) ==
    /\ Receiving
    /\ inbox > 0
    /\ inbox' = inbox - 1
    /\ raw' = f
    /\ pc' = "parse"
    /\ UNCHANGED <<conn, nsent, history, out, turn, aborted, agentVars, toolVars>>
    /\ UNCHANGED auxVars

\* main.py:41-42: json.loads, data.get or .strip raises on the frame; the
\* exception is none of WebSocketDisconnect, so it leaves the handler and the
\* server closes the socket.  (raw is not read after line 42: it is cleared.)
ParseMalformed ==
    /\ pc = "parse"
    /\ ParseRaises(raw)
    /\ raw' = NoFrame
    /\ pc' = "crashed"
    /\ UNCHANGED <<conn, inbox, nsent, history, out, turn, aborted, agentVars, toolVars>>
    /\ UNCHANGED auxVars

\* main.py:41-44: `if not user_text: continue`
ParseBlank ==
    /\ pc = "parse"
    /\ ~ParseRaises(raw)
    /\ user_text(raw) = <<>>
    /\ raw' = NoFrame
    /\ pc' = "recv"
    /\ UNCHANGED <<conn, inbox, nsent, history, out, turn, aborted, agentVars,
                   toolVars>>
    /\ UNCHANGED auxVars

\* main.py:41-50: a message starts a turn
ParseMessage ==
    /\ pc = "parse"
    /\ ~ParseRaises(raw)
    /\ user_text(raw) # <<>>
    /\ raw' = NoFrame
    /\ history' = Append(history, HumanMessage(user_text(raw)))
    /\ turn' = turn + 1
    /\ pc' = "stream"
    /\ apc' = "gen"
    /\ gmsgs' = history'
    /\ event' = NoEvent
    /\ UNCHANGED <<conn, inbox, nsent, out, aborted, nev, toolVars>>
    /\ UNCHANGED auxVars

\* main.py:40, 109-110: receive_text raises WebSocketDisconnect
ReceiveDisconnect ==
    /\ Receiving
    /\ inbox = 0
    /\ conn = "closed"
    /\ pc' = "exited"
    /\ UNCHANGED <<connVars, history, out, turn, aborted, agentVars, toolVars>>
    /\ UNCHANGED auxVars

(***************************************************************************)
(* The body of `async for event in agent.astream_events(...)`, one action  *)
(* per event kind the handler distinguishes.  A send on a connection the   *)
(* client has left raises inside the try of main.py:48.                    *)
(***************************************************************************)
\* the handler is suspended in the async for and the model is generating
Generating == pc = "stream" /\ apc = "gen"

\* variant of ChatModelStream without the emptiness test of main.py:60
ChatModelStream_nofilter(chunk) ==
    /\ Generating
    /\ nev < MaxEvents
    /\ nev' = nev + 1
    /\ event' = UpEvent("on_chat_model_stream", "", chunk)
    /\ IF ~chunk.list
       THEN IF conn = "open"
            THEN /\ out' = Append(out, Event("token", ""))
                 /\ UNCHANGED <<pc, aborted, apc>>
            ELSE /\ Except
                 /\ apc' = "idle"
                 /\ out' = out
       ELSE UNCHANGED <<out, pc, aborted, apc>>
    /\ UNCHANGED <<connVars, history, turn, gmsgs, toolVars>>
    /\ UNCHANGED auxVars

\* main.py:56-63: on_chat_model_stream; only a non-empty string is forwarded
ChatModelStream(chunk) ==
    /\ Generating
    /\ nev < MaxEvents
    /\ nev' = nev + 1
    /\ event' = UpEvent("on_chat_model_stream", "", chunk)
    /\ IF ~chunk.list /\ chunk.text # <<>>
       THEN IF conn = "open"
            THEN /\ out' = Append(out, Event("token", ""))
                 /\ UNCHANGED <<pc, aborted, apc>>
            ELSE /\ Except
                 /\ apc' = "idle"
                 /\ out' = out
       ELSE UNCHANGED <<out, pc, aborted, apc>>
    /\ UNCHANGED <<connVars, history, turn, gmsgs, toolVars>>
    /\ UNCHANGED auxVars

\* main.py:53-98: an event of any other kind (on_chain_start, on_chat_model_end,
\* on_chain_end of an inner node, ...) matches no branch
OtherEvent ==
    /\ Generating
    /\ nev < MaxEvents
    /\ nev' = nev + 1
    /\ event' = UpEvent("other", "", NoChunk)
    /\ UNCHANGED <<connVars, pc, history, out, turn, aborted, apc, gmsgs, toolVars>>
    /\ UNCHANGED auxVars

\* the locals of a finished tool call are gone
ToolReset ==
    /\ tname' = "none"
    /\ tmp_path' = 0
    /\ tfile' = 0
    /\ result' = NoResult

\* variant of ToolStart in which the list handed to the graph is the history
\* itself and the graph appends to it in place
ToolStart_alias(t) ==
    /\ Generating
    /\ nev < MaxEvents
    /\ ntool < MaxTools
    /\ ntool' = ntool + 1
    /\ tpc = "idle"
    /\ nev' = nev + 1
    /\ gmsgs' = Append(gmsgs, Msg("assistant", <<>>, nev + 1))
    /\ event' = UpEvent("on_tool_start", t, NoChunk)
    /\ tname' = t
    /\ tpc' = IF t = "execute_python" THEN "create" ELSE "call"
    /\ ninv' = IF t = "execute_python" THEN ninv + 1 ELSE ninv
    /\ tmp_path' = 0
    /\ tfile' = 0
    /\ result' = NoResult
    /\ IF conn = "open"
       THEN /\ out' = Append(out, Event("tool_start", t))
            /\ apc' = "tool"
            /\ UNCHANGED <<pc, aborted>>
       ELSE /\ Except
            /\ apc' = "idle"
            /\ out' = out
    /\ history' = gmsgs'
    /\ UNCHANGED <<connVars, turn, disk, procs>>
    /\ UNCHANGED auxVars

\* main.py:66-76: on_tool_start; the model asked for tool t, whose body starts
ToolStart(t) ==
    /\ Generating
    /\ nev < MaxEvents
    /\ ntool < MaxTools
    /\ ntool' = ntool + 1
    /\ tpc = "idle"
    /\ nev' = nev + 1
    /\ gmsgs' = Append(gmsgs, Msg("assistant", <<>>, nev + 1))
    /\ event' = UpEvent("on_tool_start", t, NoChunk)
    /\ tname' = t
    /\ tpc' = IF t = "execute_python" THEN "create" ELSE "call"
    /\ ninv' = IF t = "execute_python" THEN ninv + 1 ELSE ninv
    /\ tmp_path' = 0
    /\ tfile' = 0
    /\ result' = NoResult
    /\ IF conn = "open"
       THEN /\ out' = Append(out, Event("tool_start", t))
            /\ apc' = "tool"
            /\ UNCHANGED <<pc, aborted>>
       ELSE /\ Except
            /\ apc' = "idle"
            /\ out' = out
    /\ UNCHANGED <<connVars, history, turn, disk, procs>>
    /\ UNCHANGED auxVars

\* main.py:79-89: on_tool_end; the tool body returned `result`
ToolEnd ==
    /\ pc = "stream"
    /\ apc = "tool"
    /\ tpc = "returned"
    /\ tpc' = "idle"
    /\ ToolReset
    /\ gmsgs' = Append(gmsgs, Msg("tool", <<>>, gmsgs[Len(gmsgs)].call))
    /\ event' = UpEvent("on_tool_end", tname, NoChunk)
    /\ IF conn = "open"
       THEN /\ out' = Append(out, Event("tool_end", tname))
            /\ apc' = "gen"
            /\ UNCHANGED <<pc, aborted>>
       ELSE /\ Except
            /\ apc' = "idle"
            /\ out' = out
    /\ UNCHANGED <<connVars, history, turn, nev, disk, procs, ninv, ntool>>
    /\ UNCHANGED auxVars

\* the tool body raised: the graph either lets the exception through to the
\* consumer of the stream (main.py:102) or turns it into a tool message and
\* goes on; in neither case is an on_tool_end event produced
ToolRaised ==
    /\ pc = "stream"
    /\ apc = "tool"
    /\ tpc = "raised"
    /\ tpc' = "idle"
    /\ \/ /\ Except
          /\ apc' = "idle"
          /\ gmsgs' = gmsgs
          /\ event' = NoEvent
       \/ /\ apc' = "gen"
          /\ gmsgs' = Append(gmsgs, Msg("tool", <<>>, gmsgs[Len(gmsgs)].call))
          /\ UNCHANGED <<pc, aborted, event>>
    /\ ToolReset
    /\ UNCHANGED <<connVars, history, out, turn, nev, disk, procs, ninv, ntool>>
    /\ UNCHANGED auxVars

\* the stream was left (main.py:102) while a tool body was running: nothing
\* consumes its outcome
ToolAbandoned ==
    /\ apc # "tool"
    /\ tpc \in {"returned", "raised"}
    /\ tpc' = "idle"
    /\ ToolReset
    /\ UNCHANGED <<connVars, pc, history, out, turn, aborted, agentVars, disk,
                   procs, ninv, ntool>>
    /\ UNCHANGED auxVars

\* main.py:92-98: on_chain_end of the graph carries the final message list
GraphEnd ==
    /\ Generating
    /\ history' = Append(gmsgs, Msg("assistant", <<"a">>, 0))
    /\ gmsgs' = history'
    /\ event' = UpEvent("on_chain_end", "LangGraph", NoChunk)
    /\ apc' = "fin"
    /\ UNCHANGED <<connVars, pc, out, turn, aborted, nev, toolVars>>
    /\ UNCHANGED auxVars

\* main.py:49, 100: the stream is exhausted, the loop falls through to line 100
StreamEnd ==
    /\ pc = "stream"
    /\ apc = "fin"
    /\ pc' = "send_done"
    /\ apc' = "idle"
    /\ UNCHANGED <<connVars, history, out, turn, aborted, nev, gmsgs, event, toolVars>>
    /\ UNCHANGED auxVars

\* variant of StreamRaise in which the messages the graph produced before the
\* fault are kept in the history
StreamRaise_keep ==
    /\ Generating
    /\ Except
    /\ apc' = "idle"
    /\ history' = gmsgs
    /\ event' = NoEvent
    /\ UNCHANGED <<connVars, out, turn, nev, gmsgs, toolVars>>
    /\ UNCHANGED auxVars

\* main.py:49, 102: the stream raises (model unreachable, malformed event, ...);
\* the loop variable is not used again
StreamRaise ==
    /\ Generating
    /\ Except
    /\ apc' = "idle"
    /\ event' = NoEvent
    /\ UNCHANGED <<connVars, history, out, turn, nev, gmsgs, toolVars>>
    /\ UNCHANGED auxVars

\* agent.py:135, main.py:49-52, 102: neither create_agent nor the astream_events
\* call sets a step bound, and the handler has none of its own.  If the graph
\* library stops a run that goes from tool round to tool round, it does so by
\* raising from the stream, and the handler sees a fault like any other.
StreamLimit ==
    /\ Generating
    /\ gmsgs[Len(gmsgs)].role = "tool"
    /\ Except
    /\ apc' = "limit"
    /\ event' = NoEvent
    /\ UNCHANGED <<connVars, history, out, turn, nev, gmsgs, toolVars>>
    /\ UNCHANGED auxVars

\* main.py:100: done on the success path; a failing send is caught at line 102
SendDone ==
    /\ pc = "send_done"
    /\ IF conn = "open"
       THEN /\ out' = Append(out, Event("done", ""))
            /\ pc' = "recv"
            /\ aborted' = aborted
       ELSE /\ Except
            /\ out' = out
    /\ UNCHANGED <<connVars, history, turn, agentVars, toolVars>>
    /\ UNCHANGED auxVars

\* variant of SendError: the except clause re-raises instead of reporting
SendError_reraise ==
    /\ pc = "send_error"
    /\ pc' = "crashed"
    /\ UNCHANGED <<connVars, history, out, turn, aborted, agentVars, toolVars>>
    /\ UNCHANGED auxVars

\* variant of SendError: the except clause swallows the fault, no error event
SendError_silent ==
    /\ pc = "send_error"
    /\ pc' = "send_done_err"
    /\ UNCHANGED <<connVars, history, out, turn, aborted, agentVars, toolVars>>
    /\ UNCHANGED auxVars

\* main.py:103-106: the error event; a failing send leaves the handler
SendError ==
    /\ pc = "send_error"
    /\ IF conn = "open"
       THEN /\ out' = Append(out, Event("error", ""))
            /\ pc' = "send_done_err"
       ELSE /\ HandlerEnds
            /\ out' = out
    /\ UNCHANGED <<connVars, history, turn, aborted, agentVars, toolVars>>
    /\ UNCHANGED auxVars

\* variant of SendDoneErr: line 107 is missing, no done after the error
SendDoneErr_nodone ==
    /\ pc = "send_done_err"
    /\ pc' = "recv"
    /\ UNCHANGED <<connVars, history, out, turn, aborted, agentVars, toolVars>>
    /\ UNCHANGED auxVars

\* variant of SendDoneErr: the handler returns after reporting the fault
SendDoneErr_close ==
    /\ pc = "send_done_err"
    /\ IF conn = "open"
       THEN /\ out' = Append(out, Event("done", ""))
            /\ pc' = "exited"
       ELSE /\ HandlerEnds
            /\ out' = out
    /\ UNCHANGED <<connVars, history, turn, aborted, agentVars, toolVars>>
    /\ UNCHANGED auxVars

\* main.py:107: done after the error event, then back to the top of the loop
SendDoneErr ==
    /\ pc = "send_done_err"
    /\ IF conn = "open"
       THEN /\ out' = Append(out, Event("done", ""))
            /\ pc' = "recv"
       ELSE /\ HandlerEnds
            /\ out' = out
    /\ UNCHANGED <<connVars, history, turn, aborted, agentVars, toolVars>>
    /\ UNCHANGED auxVars

(***************************************************************************)
(* build_tools, agent.py:16-112.  The body of a tool runs while the agent  *)
(* is between on_tool_start and the tool's outcome; tpc is the position in *)
(* the body, "returned" / "raised" its outcome.                            *)
(***************************************************************************)
\* agent.py:35-37: NamedTemporaryFile(delete=False) creates the file, or raises
ExecCreate ==
    /\ tname = "execute_python"
    /\ tpc = "create"
    /\ \/ /\ tfile' = ninv
          /\ disk' = disk \cup {ninv}
          /\ tpc' = "write"
          /\ result' = result
       \/ /\ result' = Result("error", <<>>)
          /\ tpc' = "finally"
          /\ UNCHANGED <<tfile, disk>>
    /\ UNCHANGED <<connVars, pc, history, out, turn, aborted, agentVars, tname,
                   tmp_path, procs, ninv, ntool>>
    /\ UNCHANGED auxVars

\* agent.py:38-39 and the exit of the with block: f.write(code) may raise
\* before tmp_path is assigned; closing the file may raise after it
ExecWrite ==
    /\ tname = "execute_python"
    /\ tpc = "write"
    /\ \/ /\ tmp_path' = tfile
          /\ tpc' = "spawn"
          /\ result' = result
       \/ /\ tmp_path' = tmp_path
          /\ result' = Result("error", <<>>)
          /\ tpc' = "finally"
       \/ /\ tmp_path' = tfile
          /\ result' = Result("error", <<>>)
          /\ tpc' = "finally"
    /\ UNCHANGED <<connVars, pc, history, out, turn, aborted, agentVars, tname,
                   tfile, disk, procs, ninv, ntool>>
    /\ UNCHANGED auxVars

\* agent.py:41-46: subprocess.run starts the child, or raises (no interpreter)
ExecSpawn ==
    /\ tname = "execute_python"
    /\ tpc = "spawn"
    /\ \/ /\ procs' = procs \cup {ninv}
          /\ tpc' = "wait"
          /\ result' = result
       \/ /\ result' = Result("error", <<>>)
          /\ tpc' = "finally"
          /\ procs' = procs
    /\ UNCHANGED <<connVars, pc, history, out, turn, aborted, agentVars, tname,
                   tmp_path, tfile, disk, ninv, ntool>>
    /\ UNCHANGED auxVars

\* agent.py:47-49: the string built from a finished child; `output` is its
\* stdout when it exited with 0 and its stderr otherwise
Completed(rc, output) ==
    IF rc = 0
    THEN IF strip(output) # <<>> THEN Result("stdout", strip(output))
                                 ELSE Result("no_output", <<>>)
    ELSE Result("exit", strip(output))

\* agent.py:41-49: the child exits on its own within the time limit; the
\* script may have removed its own file
ExecExit(rc, output, rm) ==
    /\ tname = "execute_python"
    /\ tpc = "wait"
    /\ procs' = procs \ {ninv}
    /\ disk' = IF rm THEN disk \ {tfile} ELSE disk
    /\ result' = Completed(rc, output)
    /\ tpc' = "finally"
    /\ UNCHANGED <<connVars, pc, history, out, turn, aborted, agentVars, tname,
                   tmp_path, tfile, ninv, ntool>>
    /\ UNCHANGED auxVars

\* agent.py:45, 50-51: the time limit passes first; subprocess.run kills the
\* child, waits for it and raises TimeoutExpired
ExecTimeout ==
    /\ tname = "execute_python"
    /\ tpc = "wait"
    /\ procs' = procs \ {ninv}
    /\ result' = Result("timeout", <<>>)
    /\ tpc' = "finally"
    /\ UNCHANGED <<connVars, pc, history, out, turn, aborted, agentVars, tname,
                   tmp_path, tfile, disk, ninv, ntool>>
    /\ UNCHANGED auxVars

\* agent.py:54-56: the finally clause; os.unlink may raise, and an exception
\* raised in a finally clause replaces the pending return (result keeps the
\* value that was about to be returned)
ExecFinally ==
    /\ tname = "execute_python"
    /\ tpc = "finally"
    /\ IF tmp_path # 0 /\ tmp_path \in disk
       THEN \/ /\ disk' = disk \ {tmp_path}
               /\ tpc' = "returned"
               /\ result' = result
            \/ /\ disk' = disk
               /\ tpc' = "raised"
               /\ result' = result
       ELSE /\ tpc' = "returned"
            /\ UNCHANGED <<disk, result>>
    /\ UNCHANGED <<connVars, pc, history, out, turn, aborted, agentVars, tname,
                   tmp_path, tfile, procs, ninv, ntool>>
    /\ UNCHANGED auxVars

\* agent.py:65-72: read_file; every exception becomes a string
ReadFile(io, data) ==
    /\ tname = "read_file"
    /\ tpc = "call"
    /\ io # "ok" => data = <<>>
    /\ result' = CASE io = "ok" /\ data # <<>> -> Result("data", data)
                   [] io = "ok" /\ data = <<>> -> Result("empty_file", <<>>)
                   [] io = "FileNotFoundError" -> Result("not_found", <<>>)
                   [] OTHER -> Result("error", <<>>)
    /\ tpc' = "returned"
    /\ UNCHANGED <<connVars, pc, history, out, turn, aborted, agentVars, tname,
                   tmp_path, tfile, disk, procs, ninv, ntool>>
    /\ UNCHANGED auxVars

\* agent.py:82-90: write_file; every exception becomes a string
WriteFile(io) ==
    /\ tname = "write_file"
    /\ tpc = "call"
    /\ result' = IF io = "ok" THEN Result("wrote", <<>>) ELSE Result("error", <<>>)
    /\ tpc' = "returned"
    /\ UNCHANGED <<connVars, pc, history, out, turn, aborted, agentVars, tname,
                   tmp_path, tfile, disk, procs, ninv, ntool>>
    /\ UNCHANGED auxVars

\* agent.py:99-110: list_files; every exception becomes a string
ListFiles(io, empty) ==
    /\ tname = "list_files"
    /\ tpc = "call"
    /\ result' = CASE io = "ok" /\ ~empty -> Result("listing", <<>>)
                   [] io = "ok" /\ empty -> Result("empty_directory", <<>>)
                   [] OTHER -> Result("error", <<>>)
    /\ tpc' = "returned"
    /\ UNCHANGED <<connVars, pc, history, out, turn, aborted, agentVars, tname,
                   tmp_path, tfile, disk, procs, ninv, ntool>>
    /\ UNCHANGED auxVars

\* agent.py:17-22, 112: the search tool is handed to the agent as the library
\* built it, with no handler of its own: a failing query raises
WebSearch(io) ==
    /\ tname = "web_search"
    /\ tpc = "call"
    /\ IF io = "ok"
       THEN /\ result' = Result("search", <<>>)
            /\ tpc' = "returned"
       ELSE /\ result' = NoResult
            /\ tpc' = "raised"
    /\ UNCHANGED <<connVars, pc, history, out, turn, aborted, agentVars, tname,
                   tmp_path, tfile, disk, procs, ninv, ntool>>
    /\ UNCHANGED auxVars

\* outcomes of the file system and network calls a tool makes
IoOutcomes == {"ok", "FileNotFoundError", "OSError"}

(***************************************************************************)
(* Specification.                                                          *)
(***************************************************************************)
Client ==
    \/ ClientSend
    \/ ClientDisconnect

Handler ==
    \/ \E f \in Frames : Receive(f)
    \/ ParseMalformed
    \/ ParseBlank
    \/ ParseMessage
    \/ ReceiveDisconnect
    \/ \E chunk \in Chunks : ChatModelStream(chunk)
    \/ OtherEvent
    \/ \E t \in ToolNames : ToolStart(t)
    \/ ToolEnd
    \/ ToolRaised
    \/ GraphEnd
    \/ StreamEnd
    \/ StreamRaise
    \/ StreamLimit
    \/ SendDone
    \/ SendError
    \/ SendDoneErr

Tool ==
    \/ ExecCreate
    \/ ExecWrite
    \/ ExecSpawn
    \/ \E rc \in {0, 1}, output \in Texts, rm \in BOOLEAN : ExecExit(rc, output, rm)
    \/ ExecTimeout
    \/ ExecFinally
    \/ \E io \in IoOutcomes, data \in Texts : ReadFile(io, data)
    \/ \E io \in IoOutcomes : WriteFile(io)
    \/ \E io \in IoOutcomes, empty \in BOOLEAN : ListFiles(io, empty)
    \/ \E io \in IoOutcomes : WebSearch(io)
    \/ ToolAbandoned

Next == Client \/ Handler \/ Tool

Spec == Init /\ [][Next]_vars

\* The event loop runs the handler whenever it can take a step, the agent
\* stream yields or ends, and a running tool body proceeds.
LiveSpec == Spec /\ WF_vars(Handler) /\ WF_vars(Tool)

(***************************************************************************)
(* read_file and write_file (agent.py:58-90) applied to a small disk.      *)
(***************************************************************************)
\* agent.py:67: at most this many characters are read
ReadCap == 12000

\* Python's s[:n]
Slice(s, n) == SubSeq(s, 1, IF Len(s) < n THEN Len(s) ELSE n)

\* the text "abab..." of n characters
Fill(n) == [i \in 1..n |-> IF i % 2 = 1 THEN "a" ELSE "b"]

\* the contents write_file is called with: empty, short, with a line feed,
\* with a carriage return, with both, and around the read limit
Contents ==
    {<<>>, <<"a">>, <<"a", LF, "b">>, <<"a", CR, "b">>, <<CR, LF>>,
     Fill(ReadCap), Fill(ReadCap + 1)}

LineSeps == {LF, CRLF}

\* agent.py:87-88: a file opened with mode "w" and the default newline
\* handling writes os.linesep for each "\n" and every other character as is
WriteTranslate(s) == [i \in 1..Len(s) |-> IF s[i] = LF THEN linesep ELSE s[i]]

\* agent.py:66-67: a file opened with mode "r" and the default newline
\* handling yields "\n" for each "\r\n" and for each lone "\r"
ReadTranslate(d) ==
    LET t == [i \in 1..Len(d) |->
                 IF d[i] = LF /\ i > 1 /\ d[i - 1] = CR THEN ""
                 ELSE IF d[i] \in {CR, CRLF} THEN LF
                 ELSE d[i]]
    IN  SelectSeq(t, LAMBDA c : c # "")

\* agent.py:65-72: the value read_file returns
read_file(file_path, io) ==
    IF ~fs[file_path].exists THEN Ret("not_found", <<>>)
    ELSE IF io # "ok" THEN Ret("error", <<>>)
    ELSE LET data == Slice(ReadTranslate(fs[file_path].data), ReadCap)
         IN  IF data # <<>> THEN Ret("data", data) ELSE Ret("empty", <<>>)

\* what can happen to a write_file call: it goes through, makedirs or open
\* raises, or write raises after open has created or emptied the file
WriteOutcomes == {"ok", "open_fails", "write_fails"}

\* agent.py:82-90: write_file(file_path, content)
CallWriteFile(file_path, content, io) ==
    /\ call' = Call("write_file", file_path, content)
    /\ fs' = IF io = "ok" THEN [fs EXCEPT ![file_path] = File(WriteTranslate(content))]
             ELSE IF io = "write_fails" THEN [fs EXCEPT ![file_path] = File(<<>>)]
             ELSE fs
    /\ ret' = IF io = "ok" THEN Ret("wrote", <<Len(content)>>) ELSE Ret("error", <<>>)
    /\ written' = [written EXCEPT ![file_path] = IF io = "ok" THEN Wrote(content) ELSE NoWrite]
    /\ UNCHANGED <<linesep, mainVars, connsVars>>

\* agent.py:65-72: read_file(file_path)
CallReadFile(file_path, io) ==
    /\ call' = Call("read_file", file_path, <<>>)
    /\ ret' = read_file(file_path, io)
    /\ UNCHANGED <<fs, linesep, written, mainVars, connsVars>>

FileInit ==
    /\ HandlerInit
    /\ ConnsInit
    /\ fs = [p \in Paths |-> NoFile]
    /\ linesep \in LineSeps
    /\ written = [p \in Paths |-> NoWrite]
    /\ call = NoCall
    /\ ret = NoRet

FileNext ==
    \/ \E p \in Paths, c \in Contents, io \in WriteOutcomes : CallWriteFile(p, c, io)
    \/ \E p \in Paths, io \in {"ok", "OSError"} : CallReadFile(p, io)

FileSpec == FileInit /\ [][FileNext]_vars

(***************************************************************************)
(* list_files (agent.py:92-110) applied to the entries of a directory.     *)
(***************************************************************************)
\* bound: the number of entries of the listed directory
MaxEntries == 4

\* entry names as sequences of character codes: "." is 0, "a" is 1, ...,
\* "z" is 26; these are "a", "b", "y.txt" and "z.txt"
Names == {<<1>>, <<2>>, <<25, 0, 20, 24, 20>>, <<26, 0, 20, 24, 20>>}

\* os.DirEntry: name, is_dir(), is_file()
DirEntry(name, kind) == [name |-> name, is_dir |-> kind = "dir", is_file |-> kind = "file"]

DirEntries == {DirEntry(n, k) : n \in Names, k \in {"dir", "file"}}

\* what os.scandir may yield: the entries of a directory in any order, no
\* two with the same name
Scans ==
    UNION {{s \in [1..n -> DirEntries] :
               \A i, j \in 1..n : i # j => s[i].name # s[j].name} : n \in 0..MaxEntries}

\* Python's a < b on strings
NameLess(a, b) ==
    \/ \E k \in 1..Len(a) :
           /\ k <= Len(b)
           /\ \A i \in 1..(k - 1) : a[i] = b[i]
           /\ a[k] < b[k]
    \/ /\ Len(a) < Len(b)
       /\ \A i \in 1..Len(a) : a[i] = b[i]

\* variant of sort_key without the negation
sort_key_nonot(e) == <<e.is_dir, e.name>>

\* agent.py:101: key=lambda e: (not e.is_dir(), e.name)
sort_key(e) == <<~e.is_dir, e.name>>

\* Python's k1 < k2 on (bool, str) pairs; False < True
KeyLess(k1, k2) ==
    \/ ~k1[1] /\ k2[1]
    \/ k1[1] = k2[1] /\ NameLess(k1[2], k2[2])

\* e put into the sorted sequence t behind every element that is not greater
Insert(e, t) ==
    LET k == Cardinality({i \in 1..Len(t) : ~KeyLess(sort_key(e), sort_key(t[i]))})
    IN  SubSeq(t, 1, k) \o <<e>> \o SubSeq(t, k + 1, Len(t))

\* agent.py:100-102: sorted(entries, key=...), a stable sort
RECURSIVE sorted(_)
sorted(s) ==
    IF s = <<>> THEN <<>> ELSE Insert(s[Len(s)], sorted(SubSeq(s, 1, Len(s) - 1)))

\* agent.py:104-107: one line of the listing; size tells whether the line
\* ends in the entry's size
Line(e) == [tag |-> IF e.is_dir THEN "DIR " ELSE "FILE", name |-> e.name, size |-> e.is_file]

\* agent.py:99-110: the value list_files returns
list_files(scan, io) ==
    IF io # "ok" THEN Ret("error", <<>>)
    ELSE LET entries == sorted(scan)
             lines == [i \in 1..Len(entries) |-> Line(entries[i])]
         IN  IF lines # <<>> THEN Ret("listing", lines) ELSE Ret("empty_dir", <<>>)

\* agent.py:99-110: list_files(directory) on a directory that scans as `scan`
CallListFiles(scan, io) ==
    /\ call' = Call("list_files", ".", scan)
    /\ ret' = list_files(scan, io)
    /\ UNCHANGED <<fs, linesep, written, mainVars, connsVars>>

ListNext == \E scan \in Scans, io \in {"ok", "OSError"} : CallListFiles(scan, io)

ListSpec == Init /\ [][ListNext]_vars

(***************************************************************************)
(* The fields of the tool_start, tool_end and error events (main.py:66-89, *)
(* 102-106) as functions of what they are built from.                      *)
(***************************************************************************)
\* main.py:73, 86, 105: the lengths the three fields are cut to
InputCap == 400

OutputCap == 600

ErrorCap == 600

\* lengths of the variable part of an input, an output or a traceback:
\* short ones and the ones around the two cuts
Lens == {0, 1, 387, 388, 389, 399, 400, 401, 589, 590, 591, 599, 600, 601}

\* the argument each tool is called with
ToolArg ==
    [web_search |-> <<"q", "u", "e", "r", "y">>,
     execute_python |-> <<"c", "o", "d", "e">>,
     read_file |-> <<"f", "i", "l", "e", "_", "p", "a", "t", "h">>,
     write_file |-> <<"f", "i", "l", "e", "_", "p", "a", "t", "h">>,
     list_files |-> <<"d", "i", "r", "e", "c", "t", "o", "r", "y">>]

\* event["data"]["input"] of an on_tool_start event: a dict with the argument
ToolInputs == [key : {ToolArg[t] : t \in ToolNames}, value : {Fill(n) : n \in Lens}]

\* event["data"]["output"] of an on_tool_end event: the string the tool
\* returned, or the tool message that wraps it
ToolOutputs == [obj : {"str", "ToolMessage"}, content : {Fill(n) : n \in Lens}]

\* str() of a dict with one string item: {'key': 'value'}
str_dict(d) == <<"{", "'">> \o d.key \o <<"'", ":", " ", "'">> \o d.value \o <<"'", "}">>

\* str() of a tool output: a string is itself, a message starts content='...'
str_output(o) ==
    IF o.obj = "str" THEN o.content
    ELSE <<"c", "o", "n", "t", "e", "n", "t", "=", "'">> \o o.content \o <<"'">>

\* variant of tool_start_payload that cuts the input where outputs are cut
tool_start_payload_wide(name, tool_input) ==
    [type |-> "tool_start", tool |-> name, input |-> Slice(str_dict(tool_input), OutputCap)]

\* main.py:69-75
tool_start_payload(name, tool_input) ==
    [type |-> "tool_start", tool |-> name, input |-> Slice(str_dict(tool_input), InputCap)]

\* main.py:82-88
tool_end_payload(name, tool_output) ==
    [type |-> "tool_end", tool |-> name, output |-> Slice(str_output(tool_output), OutputCap)]

\* main.py:103-106
error_payload(err) == [type |-> "error", message |-> Slice(err, ErrorCap)]

\* main.py:66-76: the tool_start event of an on_tool_start event
EmitToolStart(name, tool_input) ==
    /\ tool_input.key = ToolArg[name]
    /\ call' = Call("tool_start", name, tool_input)
    /\ ret' = tool_start_payload(name, tool_input)
    /\ UNCHANGED <<fs, linesep, written, mainVars, connsVars>>

\* main.py:79-89: the tool_end event of an on_tool_end event
EmitToolEnd(name, tool_output) ==
    /\ call' = Call("tool_end", name, tool_output)
    /\ ret' = tool_end_payload(name, tool_output)
    /\ UNCHANGED <<fs, linesep, written, mainVars, connsVars>>

\* main.py:102-106: the error event of a fault whose traceback is err
EmitError(err) ==
    /\ call' = Call("error", "", err)
    /\ ret' = error_payload(err)
    /\ UNCHANGED <<fs, linesep, written, mainVars, connsVars>>

WireNext ==
    \/ \E t \in ToolNames, i \in ToolInputs : EmitToolStart(t, i)
    \/ \E t \in ToolNames, o \in ToolOutputs : EmitToolEnd(t, o)
    \/ \E n \in Lens : EmitError(Fill(n))

WireSpec == Init /\ [][WireNext]_vars

(***************************************************************************)
(* Several connections served by the one process and its one agent         *)
(* (main.py:20-23, 31-52): each handler invocation at the granularity of   *)
(* its turns.                                                              *)
(***************************************************************************)
\* variant of history_of in which the history is one list of the module
history_shared(c) == 1

\* main.py:36: history is a local of the handler invocation, so the list a
\* handler works on is the one of its own connection
history_of(c) == c

\* the text of the messages client c sends
TextOf(c) == <<c>>

\* the answer of the agent to a submitted message list: the agent has no
\* state of its own between runs (agent.py:135 builds it without a
\* checkpointer), so the answer is a function of what was submitted; it
\* takes up the message it answers
Answer(msgs) == msgs[Len(msgs)].text

ConnEvent(ty, content) == [type |-> ty, content |-> content]

\* main.py:33-36: a client connects; its handler starts with an empty history
Accept(c) ==
    /\ cpc[c] = "none"
    /\ cpc' = [cpc EXCEPT ![c] = "recv"]
    /\ chist' = [chist EXCEPT ![history_of(c)] = <<>>]
    /\ UNCHANGED <<cgraph, cout, cturn, mainVars, dataVars>>

\* main.py:40-52: a message of the client is received, appended to the
\* history, and the history is submitted to the agent
ConnMessage(c) ==
    /\ cpc[c] = "recv"
    /\ cturn[c] < MaxTurns
    /\ cturn' = [cturn EXCEPT ![c] = @ + 1]
    /\ chist' = [chist EXCEPT ![history_of(c)] = Append(@, Msg("user", TextOf(c), 0))]
    /\ cgraph' = [cgraph EXCEPT ![c] = chist'[history_of(c)]]
    /\ cpc' = [cpc EXCEPT ![c] = "stream"]
    /\ UNCHANGED <<cout, mainVars, dataVars>>

\* main.py:56-63: the agent streams its answer
ConnToken(c) ==
    /\ cpc[c] = "stream"
    /\ cpc' = [cpc EXCEPT ![c] = "answered"]
    /\ cout' = [cout EXCEPT ![c] = Append(@, ConnEvent("token", Answer(cgraph[c])))]
    /\ UNCHANGED <<chist, cgraph, cturn, mainVars, dataVars>>

\* main.py:92-100: the graph ends, its final list becomes the history, done
ConnGraphEnd(c) ==
    /\ cpc[c] = "answered"
    /\ chist' = [chist EXCEPT ![history_of(c)] =
                     Append(cgraph[c], Msg("assistant", Answer(cgraph[c]), 0))]
    /\ cout' = [cout EXCEPT ![c] = Append(@, ConnEvent("done", <<>>))]
    /\ cpc' = [cpc EXCEPT ![c] = "recv"]
    /\ UNCHANGED <<cgraph, cturn, mainVars, dataVars>>

\* main.py:102-107: the turn meets a fault: error, done, history untouched
ConnFault(c) ==
    /\ cpc[c] \in {"stream", "answered"}
    /\ cout' = [cout EXCEPT ![c] = @ \o <<ConnEvent("error", <<>>), ConnEvent("done", <<>>)>>]
    /\ cpc' = [cpc EXCEPT ![c] = "recv"]
    /\ UNCHANGED <<chist, cgraph, cturn, mainVars, dataVars>>

\* main.py:109-110: the client is gone and the handler returns
ConnDisconnect(c) ==
    /\ cpc[c] = "recv"
    /\ cpc' = [cpc EXCEPT ![c] = "exited"]
    /\ UNCHANGED <<chist, cgraph, cout, cturn, mainVars, dataVars>>

ConnNext ==
    \E c \in Conns :
        \/ Accept(c)
        \/ ConnMessage(c)
        \/ ConnToken(c)
        \/ ConnGraphEnd(c)
        \/ ConnFault(c)
        \/ ConnDisconnect(c)

ConnSpec == Init /\ [][ConnNext]_vars

(***************************************************************************)
(* Properties.                                                             *)
(***************************************************************************)
\* the events sent during turn t, in order
EventsOf(t) == SelectSeq(out, LAMBDA e : e.turn = t)

\* number of events of type ty in a sequence of events
Count(ev, ty) == Cardinality({i \in 1..Len(ev) : ev[i].type = ty})

\* turn t has its done event
DoneSent(t) == \E i \in 1..Len(out) : out[i].turn = t /\ out[i].type = "done"

\* the handler has left turn t behind and is back at the top of its loop
TurnOver(t) == t < turn \/ (t = turn /\ pc \in {"recv", "parse"})

\* a text that is empty or consists of whitespace only
Blank(t) == \A i \in 1..Len(t) : t[i] = " "

\* C1: the events of a turn contain at most one done and nothing after it,
\* and once the handler has gone past the turn (on the success path or through
\* the except clause) they contain exactly one done, as their last event.
C1_ExactlyOneDoneLast ==
    \A t \in 1..turn :
        LET ev == EventsOf(t) IN
        /\ Count(ev, "done") <= 1
        /\ \A i \in 1..Len(ev) : ev[i].type = "done" => i = Len(ev)
        /\ TurnOver(t) => Count(ev, "done") = 1 /\ ev[Len(ev)].type = "done"

\* C1 witness: a finished turn that aborted and a finished turn that succeeded
\* after sending other events
C1_Witness ==
    \E t1, t2 \in 1..turn :
        /\ TurnOver(t1) /\ t1 \in aborted
        /\ TurnOver(t2) /\ t2 \notin aborted /\ Len(EventsOf(t2)) > 1

\* every turn started so far has its done event
AllTurnsDone == \A t \in 1..turn : DoneSent(t)

\* C2: every turn that was started eventually has its done event, unless the
\* client severs the connection: from any point on, a point is reached where
\* every turn started so far has its done.
C2_DoneEventually == []<>(AllTurnsDone \/ conn = "closed")

\* C2 witness: an aborted turn has received its done on an open connection
C2_Witness ==
    \E t \in 1..turn : t \in aborted /\ DoneSent(t) /\ conn = "open"

\* C3: an error event is followed at once by the done of the same turn, a
\* turn has at most one error event, only an aborted turn has one, and an
\* aborted turn the handler has gone past ends with error, done.
C3_ErrorThenDone ==
    /\ \A i \in 1..Len(out) :
           out[i].type = "error" /\ i < Len(out) =>
               out[i + 1].type = "done" /\ out[i + 1].turn = out[i].turn
    /\ \A t \in 1..turn :
           LET ev == EventsOf(t) IN
           /\ Count(ev, "error") <= 1
           /\ Count(ev, "error") = 1 => t \in aborted
           /\ TurnOver(t) /\ t \in aborted =>
                  /\ Count(ev, "error") = 1
                  /\ Len(ev) >= 2
                  /\ ev[Len(ev) - 1].type = "error"
                  /\ ev[Len(ev)].type = "done"

\* C3 witness: an aborted turn that had sent events before the fault is over,
\* and so is a turn that did not abort
C3_Witness ==
    \E t1, t2 \in 1..turn :
        /\ TurnOver(t1) /\ t1 \in aborted /\ Len(EventsOf(t1)) > 2
        /\ TurnOver(t2) /\ t2 \notin aborted

\* C4: on an open connection the except clause sends error, then done, then
\* the handler is back at receive_text; and a non-blank message received
\* after an aborted turn starts the next turn.
C4_FaultKeepsConnection ==
    /\ [][(pc = "send_error" /\ conn = "open" /\ pc' # pc) => pc' = "send_done_err"]_vars
    /\ [][(pc = "send_done_err" /\ conn = "open" /\ pc' # pc) => pc' = "recv"]_vars
    /\ [][(turn \in aborted /\ pc = "parse" /\ pc' # pc
           /\ raw.kind = "text" /\ ~Blank(raw.text))
          => (turn' = turn + 1 /\ pc' = "stream")]_vars

\* C4 witness: a turn is streaming on the connection on which the turn before
\* it aborted
C4_Witness == turn >= 2 /\ (turn - 1) \in aborted /\ pc = "stream" /\ conn = "open"

\* C5: a frame that is not JSON, has no message field or has a message that
\* is not a string is ignored: no turn, no event, the history unchanged, and
\* the handler back at receive_text.
C5_MalformedIgnored ==
    [][(pc = "parse" /\ pc' # pc /\ raw.kind # "text")
       => (pc' = "recv" /\ turn' = turn /\ out' = out /\ history' = history)]_vars

\* C6: a message whose text is blank starts no turn, sends no event and
\* leaves the history unchanged; any other message appends exactly one user
\* message to the history and starts exactly one turn.
C6_BlankIgnored ==
    [][(pc = "parse" /\ pc' # pc /\ raw.kind = "text")
       => IF Blank(raw.text)
          THEN pc' = "recv" /\ turn' = turn /\ out' = out /\ history' = history
          ELSE /\ pc' = "stream"
               /\ turn' = turn + 1
               /\ out' = out
               /\ Len(history') = Len(history) + 1
               /\ SubSeq(history', 1, Len(history)) = history
               /\ history'[Len(history')].role = "user"]_vars

\* C6 witness: two frames were received; one was skipped and the other
\* started the turn that has now finished
C6_Witness ==
    /\ pc = "recv"
    /\ nsent = 2
    /\ inbox = 0
    /\ turn = 1
    /\ Len(history) = 2

\* C7: a frame is taken from the connection, and a turn is started, only when
\* every earlier turn has sent its done; the history changes only in the
\* handler's own turn; and the events of the connection are grouped by turn.
C7_OneTurnAtATime ==
    /\ [][(inbox' < inbox \/ turn' > turn) => AllTurnsDone]_vars
    /\ [][(history' # history /\ turn' = turn) => ~DoneSent(turn)]_vars
    /\ [](\A i, j \in 1..Len(out) : i < j => out[i].turn <= out[j].turn)

\* C7 witness: a frame is queued while a turn is streaming
C7_Witness == pc = "stream" /\ inbox > 0 /\ Len(out) > 0 /\ ~DoneSent(turn)

\* C8: no tool invocation ends by raising.
C8_NoToolRaises == tpc # "raised"

\* C9: when execute_python has returned or raised, the temp file it created
\* is not on disk.
C9_ScratchRemoved ==
    (tname = "execute_python" /\ tpc \in {"returned", "raised"}) => tfile \notin disk

\* C10: when the time limit passed, execute_python ends by returning the
\* timeout string and its child is no longer running.
C10_TimeoutReturns ==
    (tname = "execute_python" /\ tpc \in {"returned", "raised"}
     /\ result.kind = "timeout")
    => (tpc = "returned" /\ ninv \notin procs)

\* C11: once the connection's handler has ended, no child process started for
\* the connection is still running and no temp file written for it is left
\* on disk.
C11_NothingOutlivesHandler == Ended => (procs = {} /\ disk = {})

\* C12: a turn that the step limit stopped, after the model went on asking
\* for tools, is over only with a step-limit outcome among the events sent to
\* the client in that turn.
C12_StepLimitReported ==
    (apc = "limit" /\ TurnOver(turn))
    => \E i \in 1..Len(out) : out[i].turn = turn /\ out[i].type = "step_limit"

\* every tool call in a message list has exactly one tool result in it, and
\* every tool result answers a call of the list
Resolved(h) ==
    /\ \A i \in 1..Len(h) :
           (h[i].role = "assistant" /\ h[i].call # 0)
           => Cardinality({j \in 1..Len(h) :
                              h[j].role = "tool" /\ h[j].call = h[i].call}) = 1
    /\ \A j \in 1..Len(h) :
           h[j].role = "tool"
           => \E i \in 1..j : h[i].role = "assistant" /\ h[i].call = h[j].call

\* C17: the history is resolved at all times, and so is the list handed to
\* the graph when a turn starts, whatever happened to the turn before.
C17_SubmittedResolved ==
    /\ [](Resolved(history))
    /\ [][turn' = turn + 1 => (Resolved(gmsgs') /\ gmsgs' = history')]_vars

\* C17 witness: a second turn has been submitted after a first turn that was
\* aborted with a tool call started
C17_Witness ==
    /\ turn = 2
    /\ pc = "stream"
    /\ 1 \in aborted
    /\ \E i \in 1..Len(out) : out[i].turn = 1 /\ out[i].type = "tool_start"

\* C18: in the events of a turn every tool_start is followed at once by the
\* tool_end of the same tool or is the last event so far, and once the turn
\* has its done every tool_start has its tool_end.
C18_ToolStartHasEnd ==
    \A t \in 1..turn :
        LET ev == EventsOf(t) IN
        \A i \in 1..Len(ev) :
            ev[i].type = "tool_start"
            => /\ i < Len(ev) => (ev[i + 1].type = "tool_end" /\ ev[i + 1].tool = ev[i].tool)
               /\ DoneSent(t) => i < Len(ev)

\* what the client is to receive for one upstream event: a token for a model
\* chunk whose content is a non-empty string, the tool_start or tool_end of a
\* tool event, nothing for anything else
Projection(e) ==
    IF e.event = "on_chat_model_stream"
    THEN IF ~e.chunk.list /\ e.chunk.text # <<>> THEN <<Event("token", "")>> ELSE <<>>
    ELSE IF e.event = "on_tool_start" THEN <<Event("tool_start", e.name)>>
    ELSE IF e.event = "on_tool_end" THEN <<Event("tool_end", e.name)>>
    ELSE <<>>

\* the stream yields an event in this step
StreamYields == nev' # nev \/ (event' # event /\ event' # NoEvent)

\* C19: while a turn streams, each event the stream yields extends the events
\* sent by exactly its projection, in the order of arrival, and nothing else
\* is sent; the one exception is an event that cannot be sent because the
\* client is gone, which ends the stream.
C19_OrderedProjection ==
    /\ [][StreamYields
          => \/ out' = out \o Projection(event')
             \/ /\ conn = "closed"
                /\ Projection(event') # <<>>
                /\ out' = out
                /\ pc' = "send_error"]_vars
    /\ [][(pc = "stream" /\ ~StreamYields) => out' = out]_vars

\* C19 witness: the stream has yielded a chunk with non-empty text, forwarded
\* as a token, and then a chunk with empty text, forwarded as nothing
C19_Witness ==
    /\ pc = "stream"
    /\ nev = 2
    /\ event = UpEvent("on_chat_model_stream", "", [list |-> FALSE, text |-> <<>>])
    /\ Len(out) = 1
    /\ out[1].type = "token"

\* a is an initial segment of b
IsPrefix(a, b) == Len(a) <= Len(b) /\ SubSeq(b, 1, Len(a)) = a

\* C20: a turn starts by appending the user's message to the history and
\* submitting the result; within a turn the history changes only by becoming
\* the final message list of the graph, which extends the submitted history,
\* and only in a turn that has met no fault; an aborted turn that is over has
\* left the history ending in its unanswered user message, which the next
\* turn submits again ahead of the new one.
C20_TurnEffectOnHistory ==
    /\ [][turn' = turn + 1
          => /\ Len(history') = Len(history) + 1
             /\ IsPrefix(history, history')
             /\ history'[Len(history')].role = "user"
             /\ gmsgs' = history'
             /\ turn \in aborted => history[Len(history)].role = "user"]_vars
    /\ [][(turn' = turn /\ history' # history)
          => /\ pc = "stream"
             /\ turn \notin aborted'
             /\ history' = gmsgs'
             /\ IsPrefix(history, history')
             /\ history'[Len(history')].role = "assistant"]_vars
    /\ [](\A t \in aborted : (t = turn /\ TurnOver(t))
                             => history[Len(history)].role = "user")

\* C20 witness: the second turn has been submitted after a first turn that
\* was aborted after a complete tool round; the history holds the two user
\* messages and nothing else
C20_Witness ==
    /\ turn = 2
    /\ pc = "stream"
    /\ 1 \in aborted
    /\ \E i \in 1..Len(out) : out[i].turn = 1 /\ out[i].type = "tool_end"
    /\ Len(history) = 2
    /\ history[1].role = "user"
    /\ history[2].role = "user"

\* C13: a read_file call that opened a path whose last write_file call
\* succeeded with content C returns exactly C when C has at most 12,000
\* characters (the empty C included), and its first 12,000 characters
\* otherwise.
C13_ReadAfterWrite ==
    (call.op = "read_file" /\ written[call.path].some /\ ret.kind \in {"data", "empty"})
    => LET C == written[call.path].content IN
       ret = Ret("data", IF Len(C) <= 12000 THEN C ELSE SubSeq(C, 1, 12000))

\* C16: a listing that list_files returns has one line per entry of the
\* directory, all directories before all files, and the names of each group
\* in ascending order; directories b, a and files z.txt, y.txt are listed as
\* a, b, y.txt, z.txt; an empty directory gives the empty-directory marker.
C16_ListingOrder ==
    (call.op = "list_files" /\ ret.kind # "error")
    => IF call.arg = <<>>
       THEN ret = Ret("empty_dir", <<>>)
       ELSE /\ ret.kind = "listing"
            /\ Len(ret.val) = Len(call.arg)
            /\ \A i \in 1..Len(call.arg) :
                   \E j \in 1..Len(ret.val) :
                       /\ ret.val[j].name = call.arg[i].name
                       /\ ret.val[j].tag = (IF call.arg[i].is_dir THEN "DIR " ELSE "FILE")
            /\ \A i, j \in 1..Len(ret.val) :
                   i < j => /\ ret.val[j].tag = "DIR " => ret.val[i].tag = "DIR "
                            /\ ret.val[i].tag = ret.val[j].tag
                               => NameLess(ret.val[i].name, ret.val[j].name)
            /\ {call.arg[i] : i \in 1..Len(call.arg)}
                   = {DirEntry(<<2>>, "dir"), DirEntry(<<1>>, "dir"),
                      DirEntry(<<26, 0, 20, 24, 20>>, "file"),
                      DirEntry(<<25, 0, 20, 24, 20>>, "file")}
               => [i \in 1..4 |-> ret.val[i].name]
                      = <<(<<1>>), (<<2>>), (<<25, 0, 20, 24, 20>>), (<<26, 0, 20, 24, 20>>)>>

\* C16 witness: the directory scanned as z.txt, b, y.txt, a, with a and b
\* directories, has been listed
C16_Witness ==
    /\ call.op = "list_files"
    /\ call.arg = <<DirEntry(<<26, 0, 20, 24, 20>>, "file"), DirEntry(<<2>>, "dir"),
                    DirEntry(<<25, 0, 20, 24, 20>>, "file"), DirEntry(<<1>>, "dir")>>
    /\ ret.kind = "listing"
    /\ ret.val[1].name = <<1>>

\* C15: the input of a tool_start event has at most 400 characters and is the
\* stringified tool input cut to its first 400 characters; the output of a
\* tool_end event has at most 600 characters; the message of an error event
\* has at most 600 characters.
C15_FieldLimits ==
    /\ call.op = "tool_start"
       => /\ Len(ret.input) <= 400
          /\ LET S == str_dict(call.arg) IN
             ret.input = SubSeq(S, 1, IF Len(S) < 400 THEN Len(S) ELSE 400)
    /\ call.op = "tool_end" => Len(ret.output) <= 600
    /\ call.op = "error" => Len(ret.message) <= 600

\* C15 witness: a tool_start event was built from an input whose string has
\* 401 characters, and its input field has 400
C15_Witness ==
    /\ call.op = "tool_start"
    /\ Len(str_dict(call.arg)) = 401
    /\ Len(ret.input) = 400

\* C14: what a connection submits to the agent consists of its own messages
\* and the answers to them, all of them and no others, and the events it is
\* sent carry only answers to its own messages, whatever the other
\* connections do in between.
C14_HistoryIsolation ==
    \A c \in Conns :
        /\ \A i \in 1..Len(cgraph[c]) : cgraph[c][i].text = TextOf(c)
        /\ cpc[c] \in {"stream", "answered"}
           => /\ Cardinality({i \in 1..Len(cgraph[c]) : cgraph[c][i].role = "user"}) = cturn[c]
              /\ cgraph[c][Len(cgraph[c])].role = "user"
        /\ \A i \in 1..Len(cout[c]) : cout[c][i].content \in {<<>>, TextOf(c)}

\* C14 witness: two connections are streaming at the same time, the first in
\* its second turn with its first answer in what it submitted
C14_Witness ==
    /\ cpc[1] = "stream"
    /\ cpc[2] = "stream"
    /\ cturn[1] = 2
    /\ cturn[2] = 1
    /\ Len(cgraph[1]) = 3
    /\ Len(cout[2]) = 0

=============================================================================
